---- MODULE Spec2Model ----
(***************************************************************************)
(* The versioned cache lifecycle and request routing of the cadoku service *)
(* worker (public/sw.js).                                                  *)
(*                                                                         *)
(* Strings whose characters the code inspects (cache names, versions) are  *)
(* sequences of one-character strings, so that startsWith, the regular     *)
(* expression of getHighestCachedVersion and Array.prototype.sort act on   *)
(* characters as they do in the code.  URLs are sequences of path segments *)
(* below the origin: "/cadoku/a.js" is <<"cadoku", "a.js">> and a trailing *)
(* slash is a last segment "".                                             *)
(*                                                                         *)
(* Every asynchronous function is cut at its awaits: one action per await, *)
(* so that handlers running at the same time interleave there.             *)
(***************************************************************************)
EXTENDS Integers, Sequences, FiniteSets, TLC

VARIABLES
    cacheNames,   \* caches.keys(): the names of the caches, in creation order
    cacheData,    \* the entries of each cache: name -> (URL -> response)
    remote,       \* the manifest currently deployed at REMOTE_ASSET_LIST
    tasks,        \* the running handler invocations, one per slot
    inbox,        \* per client, the versions of the NEW_VERSION_AVAILABLE messages received
    phase,        \* the worker's lifecycle state
    skipWaiting,  \* whether self.skipWaiting() was called
    claimed,      \* whether self.clients.claim() was called
    prev,         \* the manifest and result of the Update Checker run that completed last
    deployed,     \* the versions of the manifests deployed so far, in order
    nfail,        \* failed fetches so far
    nev,          \* handler invocations started so far
    lastEvent,    \* the last fetch or message event and what the listener did with it
    probe         \* the last application of getHighestCachedVersion on its own

vars == <<cacheNames, cacheData, remote, tasks, inbox, phase, skipWaiting, claimed, prev, deployed, nfail, nev, lastEvent, probe>>

(* ------------------------------ bounds -------------------------------- *)

\* failed fetches per behaviour
MaxFailures == 1
\* events handled (install, activate, fetch, message) per behaviour
MaxEvents == 2
\* changes of the deployed manifest per behaviour
MaxDeploys == 1
\* caches in the store when the worker starts
MaxInitCaches == 2
\* open application windows
NumClients == 2

Clients == 1..NumClients

(* ------------------------------ strings ------------------------------- *)

\* UTF-16 code units of the characters that occur in cache names
CharCode ==
    ("-" :> 45) @@ ("0" :> 48) @@ ("1" :> 49) @@ ("2" :> 50) @@ (":" :> 58) @@
    ("a" :> 97) @@ ("c" :> 99) @@ ("d" :> 100) @@ ("e" :> 101) @@ ("f" :> 102) @@
    ("g" :> 103) @@ ("h" :> 104) @@ ("i" :> 105) @@ ("k" :> 107) @@ ("l" :> 108) @@
    ("m" :> 109) @@ ("n" :> 110) @@ ("o" :> 111) @@ ("p" :> 112) @@ ("s" :> 115) @@
    ("t" :> 116) @@ ("u" :> 117) @@ ("y" :> 121)

\* a < b in the order of String comparison (code units, left to right)
RECURSIVE StrLess(_, _)
StrLess(a, b) ==
    IF b = <<>> THEN FALSE
    ELSE IF a = <<>> THEN TRUE
    ELSE IF Head(a) = Head(b) THEN StrLess(Tail(a), Tail(b))
    ELSE CharCode[Head(a)] < CharCode[Head(b)]

startsWith(s, p) == Len(s) >= Len(p) /\ SubSeq(s, 1, Len(p)) = p

endsWith(s, p) == Len(s) >= Len(p) /\ SubSeq(s, Len(s) - Len(p) + 1, Len(s)) = p

Range(s) == {s[i] : i \in 1..Len(s)}

\* the value of a missing version (null)
Null == <<>>

CACHE_PREFIX == <<"c", "a", "d", "o", "k", "u", "-", "c", "a", "c", "h", "e", ":">>

FUND_SUFFIX == <<":", ":", "f", "u", "n", "d", "a", "m", "e", "n", "t", "a", "l", "s">>

PAGES_SUFFIX == <<":", ":", "p", "a", "g", "e", "s">>

\* `${CACHE_PREFIX}${version}::fundamentals`
FundName(v) == CACHE_PREFIX \o v \o FUND_SUFFIX

\* `${CACHE_PREFIX}${version}::pages`
PagesName(v) == CACHE_PREFIX \o v \o PAGES_SUFFIX

(* ------------------------- the Version Resolver ----------------------- *)

\* k.match(/^cadoku-cache:(.+?)::fundamentals$/): the captured group, or Null
MatchFundamentals(k) ==
    IF /\ startsWith(k, CACHE_PREFIX)
       /\ endsWith(k, FUND_SUFFIX)
       /\ Len(k) > Len(CACHE_PREFIX) + Len(FUND_SUFFIX)
    THEN SubSeq(k, Len(CACHE_PREFIX) + 1, Len(k) - Len(FUND_SUFFIX))
    ELSE Null

\* s with v inserted before the first element greater than v
RECURSIVE InsertSorted(_, _)
InsertSorted(v, s) ==
    IF s = <<>> THEN <<v>>
    ELSE IF StrLess(v, Head(s)) THEN <<v>> \o s
    ELSE <<Head(s)>> \o InsertSorted(v, Tail(s))

\* versions.sort()
RECURSIVE SortStrings(_)
SortStrings(s) ==
    IF s = <<>> THEN <<>> ELSE InsertSorted(Head(s), SortStrings(Tail(s)))

IsVersion(v) == v # Null

\* a resolver that takes the first version of the sorted list
getHighestCachedVersion_First(keys) ==
    LET matches == [i \in 1..Len(keys) |-> MatchFundamentals(keys[i])]
        versions == SelectSeq(matches, IsVersion)
        sorted == SortStrings(versions)
    IN  IF Len(versions) = 0 THEN Null ELSE sorted[1]

getHighestCachedVersion(keys) ==
    LET matches == [i \in 1..Len(keys) |-> MatchFundamentals(keys[i])]
        versions == SelectSeq(matches, IsVersion)
        sorted == SortStrings(versions)
    IN  IF Len(versions) = 0 THEN Null ELSE sorted[Len(sorted)]

(* ------------------------------- URLs --------------------------------- *)

\* self.location: the worker script
SW_LOCATION == <<"cadoku", "sw.js">>

\* self.registration.scope
SCOPE == <<"cadoku", "">>

\* new URL(rel, base).href, for a relative path rel
URLResolve(rel, base) ==
    IF rel = <<>> THEN base ELSE SubSeq(base, 1, Len(base) - 1) \o rel

REMOTE_ASSET_LIST == URLResolve(<<"cached_asset_list.js">>, SW_LOCATION)

APP_SHELL_FILENAMES == << <<>>, <<"index.html">>, <<"404.html">>, <<"manifest.json">> >>

ensureTrailingSlash(s) == IF s[Len(s)] = "" THEN s ELSE s \o <<"">>

\* An entry of offlineFundamentals: form "abs" is a full URL of this origin,
\* "host" starts with "/", "rel" is relative; pad says it has blanks around it.
normalizeAssetUrl(a) ==
    LET trimmed == a.path
    IN  IF a.form = "abs" THEN trimmed
        ELSE IF a.form = "host" THEN trimmed
        ELSE URLResolve(trimmed, SW_LOCATION)

\* Array.from(new Set(arr)): the first occurrence of each element, in order
RECURSIVE dedupeArray(_)
dedupeArray(arr) ==
    IF arr = <<>> THEN <<>>
    ELSE LET front == dedupeArray(SubSeq(arr, 1, Len(arr) - 1))
             last == arr[Len(arr)]
         IN  IF last \in Range(front) THEN front ELSE Append(front, last)

\* what fetchRemoteAssetList returns for the payload m
fetchRemoteAssetList(m) ==
    [version |-> m.version,
     assets |-> [i \in 1..Len(m.assets) |-> normalizeAssetUrl(m.assets[i])]]

\* a batch of the manifest assets alone
InstallBatch_AssetsOnly(data) == dedupeArray(data.assets)

\* the URLs the install handler pre-caches
InstallBatch(data) ==
    LET scopeBase == ensureTrailingSlash(SCOPE)
        appShell == [i \in 1..Len(APP_SHELL_FILENAMES) |-> URLResolve(APP_SHELL_FILENAMES[i], scopeBase)]
    IN  dedupeArray(appShell \o data.assets)

(* ---------------------------- the cache store -------------------------- *)

HasCache(n) == n \in Range(cacheNames)

\* caches.open(n): the store after it (n is created, empty, when absent)
OpenNames(n) == IF HasCache(n) THEN cacheNames ELSE Append(cacheNames, n)

OpenData(n) == IF HasCache(n) THEN cacheData ELSE cacheData @@ (n :> {})

\* caches.delete(k): the store after it
IsNot(k, n) == n # k

DeleteNames(k) == SelectSeq(cacheNames, LAMBDA n : IsNot(k, n))

DeleteData(k) == [n \in DOMAIN cacheData \ {k} |-> cacheData[n]]

\* cache.put(url, r) on the cache named n: the entry for url is replaced
PutData(n, url, r) ==
    [cacheData EXCEPT ![n] = {e \in @ : e.url # url} \cup {[url |-> url, resp |-> r]}]

\* the URLs that have an entry in the cache named n
CachedUrls(n) == {e.url : e \in cacheData[n]}

\* the response a successful fetch of url yields
OkResponse(url) == [status |-> 200, body |-> "net"]

(* ------------------------------ requests ------------------------------ *)

NoResp == [status |-> 0, body |-> "none"]

NoReq ==
    [method |-> "none", scheme |-> "none", url |-> <<>>, hash |-> FALSE,
     mode |-> "none", accept |-> <<>>, destination |-> ""]

\* request.url.endsWith("/favicon.ico"): the fragment is part of request.url
IsFaviconUrl(req) == ~req.hash /\ req.url # <<>> /\ req.url[Len(req.url)] = "favicon.ico"

\* urlsEqualSansHash(req.url, u), u a URL of this origin
urlsEqualSansHash(req, u) == req.scheme = "https" /\ req.url = u

\* the first cache, in creation order, that holds an entry for url: its response
RECURSIVE FirstMatch(_, _)
FirstMatch(names, url) ==
    IF names = <<>> THEN NoResp
    ELSE IF url \in CachedUrls(Head(names))
         THEN (CHOOSE e \in cacheData[Head(names)] : e.url = url).resp
         ELSE FirstMatch(Tail(names), url)

\* caches.match(url)
CachesMatch(url) == FirstMatch(cacheNames, url)

\* caches.match(request): the fragment is ignored; only http(s) entries exist
CachesMatchRequest(req) == IF req.scheme = "https" THEN CachesMatch(req.url) ELSE NoResp

\* every response stored for url, in any cache
StoredAt(url) ==
    {e.resp : e \in {x \in UNION {cacheData[n] : n \in DOMAIN cacheData} : x.url = url}}

\* every response stored for the request, in any cache
StoredFor(req) ==
    {e.resp : e \in {x \in UNION {cacheData[n] : n \in DOMAIN cacheData} :
                        req.scheme = "https" /\ x.url = req.url}}

(* ------------------------------- tasks -------------------------------- *)

NoManifest == [version |-> Null, assets |-> <<>>]

NoData == [version |-> Null, assets |-> <<>>]

\* no Update Checker run has returned since the last other event
NoRun == [manifest |-> NoManifest, result |-> "none"]

\* A handler invocation: kind and pc say where it is, the other fields are its
\* local variables; resp is the response handed to respondWith once responded
\* holds; created, deleted, wrote, stored, missed, seen, startKeys, endKeys,
\* gcKeys, notified, had and after record what it did and saw, for the properties; looked lists
\* the fallback lookups of networkFirst, each with what the store held for it.
NoTask ==
    [kind |-> "none", pc |-> "idle", result |-> "none",
     req |-> NoReq, net |-> NoResp, resp |-> NoResp, responded |-> FALSE, seen |-> {},
     looked |-> <<>>, notified |-> {}, had |-> {},
     wrote |-> {}, manifest |-> NoManifest, data |-> NoData, current |-> Null,
     handle |-> Null, orphan |-> FALSE, batch |-> <<>>, pending |-> {},
     toDelete |-> {}, created |-> {}, deleted |-> {}, stored |-> {}, missed |-> {},
     startKeys |-> <<>>, endKeys |-> <<>>, gcKeys |-> <<>>, after |-> NoRun]

Free(t) == tasks[t].pc \in {"idle", "done"}

\* the outcomes of fetching the manifest: the payload, a network error, a
\* non-ok status, or a body without the two statements
ManifestOutcomes == {"ok", "throw", "notok", "garbled"}

\* the outcomes of fetching a resource
FetchOutcomes == {"ok", "throw", "notok"}

\* a filter that keeps no key
StaleKeys_All(keys, version) == Range(keys)

\* keys.filter(k => !k.startsWith(`${CACHE_PREFIX}${version}`))
StaleKeys(keys, version) == {k \in Range(keys) : ~startsWith(k, CACHE_PREFIX \o version)}

\* caches.delete(k) by task t with new record r: the cache goes, and the
\* handles other tasks hold on it now point to a cache that is in no store
DeleteBy(t, r, k) ==
    /\ cacheNames' = DeleteNames(k)
    /\ cacheData' = DeleteData(k)
    /\ tasks' = [u \in DOMAIN tasks |->
                    IF u = t THEN r
                    ELSE IF tasks[u].handle = k /\ HasCache(k)
                         THEN [tasks[u] EXCEPT !.orphan = TRUE]
                         ELSE tasks[u]]

(* -------------------- checkRemoteAssetListAndUpdateIfNeeded ------------ *)

\* the run of task t ends with result res ("updated", "noop" or "threw"); in
\* the activate handler the error is caught and the handler completes
UpdReturn(t, r, res) ==
    /\ tasks' = [tasks EXCEPT ![t] = [r EXCEPT !.pc = "done", !.result = res,
                                               !.endKeys = cacheNames, !.handle = Null]]
    /\ prev' = IF res = "threw" THEN NoRun ELSE [manifest |-> r.manifest, result |-> res]
    /\ phase' = IF r.kind = "activate" THEN "activated" ELSE phase

\* a run that posts its message although the manifest could not be read
UpdFetchList_NotifiesOnFailure(t) ==
    /\ tasks[t].pc = "U_list"
    /\ \E o \in ManifestOutcomes :
          IF o = "ok"
          THEN /\ tasks' = [tasks EXCEPT ![t].manifest = remote,
                                         ![t].data = fetchRemoteAssetList(remote),
                                         ![t].pc = "U_resolve"]
               /\ UNCHANGED <<nfail, prev, phase, inbox>>
          ELSE /\ nfail < MaxFailures
               /\ nfail' = nfail + 1
               /\ inbox' = [c \in Clients |-> Append(inbox[c], remote.version)]
               /\ UpdReturn(t, tasks[t], "threw")
    /\ UNCHANGED <<cacheNames, cacheData, remote, skipWaiting, claimed, deployed, nev, lastEvent, probe>>

\* line 258: data = await fetchRemoteAssetList()
UpdFetchList(t) ==
    /\ tasks[t].pc = "U_list"
    /\ \E o \in ManifestOutcomes :
          IF o = "ok"
          THEN /\ tasks' = [tasks EXCEPT ![t].manifest = remote,
                                         ![t].data = fetchRemoteAssetList(remote),
                                         ![t].pc = "U_resolve"]
               /\ UNCHANGED <<nfail, prev, phase>>
          ELSE /\ nfail < MaxFailures
               /\ nfail' = nfail + 1
               /\ UpdReturn(t, tasks[t], "threw")
    /\ UNCHANGED <<cacheNames, cacheData, remote, inbox, skipWaiting, claimed, deployed, nev, lastEvent, probe>>

\* a run that goes on whatever version is cached
UpdResolve_AlwaysUpdates(t) ==
    /\ tasks[t].pc = "U_resolve"
    /\ tasks' = [tasks EXCEPT ![t].current = getHighestCachedVersion(cacheNames), ![t].pc = "U_open"]
    /\ UNCHANGED <<prev, phase>>
    /\ UNCHANGED <<cacheNames, cacheData, remote, inbox, skipWaiting, claimed, deployed, nfail, nev, lastEvent, probe>>

\* lines 266-267: current = await getHighestCachedVersion(); equal versions end the run
UpdResolve(t) ==
    /\ tasks[t].pc = "U_resolve"
    /\ LET current == getHighestCachedVersion(cacheNames)
           r == [tasks[t] EXCEPT !.current = current]
       IN  IF current = r.data.version
           THEN UpdReturn(t, r, "noop")
           ELSE /\ tasks' = [tasks EXCEPT ![t] = [r EXCEPT !.pc = "U_open"]]
                /\ UNCHANGED <<prev, phase>>
    /\ UNCHANGED <<cacheNames, cacheData, remote, inbox, skipWaiting, claimed, deployed, nfail, nev, lastEvent, probe>>

\* line 271: fundCache = await caches.open(newFund); the fetches of line 274 start
UpdOpenFund(t) ==
    /\ tasks[t].pc = "U_open"
    /\ LET newFund == FundName(tasks[t].data.version)
       IN  /\ cacheNames' = OpenNames(newFund)
           /\ cacheData' = OpenData(newFund)
           /\ tasks' = [tasks EXCEPT ![t].handle = newFund, ![t].orphan = FALSE,
                                     ![t].batch = tasks[t].data.assets,
                                     ![t].had = IF HasCache(newFund) THEN CachedUrls(newFund) ELSE {},
                                     ![t].pending = 1..Len(tasks[t].data.assets),
                                     ![t].created = IF HasCache(newFund) THEN @ ELSE @ \cup {newFund},
                                     ![t].pc = "U_assets"]
    /\ UNCHANGED <<remote, inbox, phase, skipWaiting, claimed, prev, deployed, nfail, nev, lastEvent, probe>>

\* a batch that gives up its remaining fetches at the first failure
BatchFetch_Aborts(t, i) ==
    /\ i \in tasks[t].pending
    /\ LET url == tasks[t].batch[i]
           n == tasks[t].handle
       IN  \E o \in FetchOutcomes :
              IF o = "ok"
              THEN /\ tasks' = [tasks EXCEPT ![t].pending = @ \ {i}, ![t].stored = @ \cup {url}]
                   /\ cacheData' = IF tasks[t].orphan THEN cacheData ELSE PutData(n, url, OkResponse(url))
                   /\ UNCHANGED nfail
              ELSE /\ nfail < MaxFailures
                   /\ nfail' = nfail + 1
                   /\ tasks' = [tasks EXCEPT ![t].pending = {}, ![t].missed = @ \cup {url}]
                   /\ UNCHANGED cacheData
    /\ UNCHANGED <<cacheNames, remote, inbox, phase, skipWaiting, claimed, prev, deployed, nev, lastEvent, probe>>

\* lines 50-51 and 276-278: one fetch of the batch settles; an ok response is
\* put into the cache the task holds
BatchFetch(t, i) ==
    /\ i \in tasks[t].pending
    /\ LET url == tasks[t].batch[i]
           n == tasks[t].handle
       IN  \E o \in FetchOutcomes :
              IF o = "ok"
              THEN /\ tasks' = [tasks EXCEPT ![t].pending = @ \ {i}, ![t].stored = @ \cup {url}]
                   /\ cacheData' = IF tasks[t].orphan THEN cacheData ELSE PutData(n, url, OkResponse(url))
                   /\ UNCHANGED nfail
              ELSE /\ nfail < MaxFailures
                   /\ nfail' = nfail + 1
                   /\ tasks' = [tasks EXCEPT ![t].pending = @ \ {i}, ![t].missed = @ \cup {url}]
                   /\ UNCHANGED cacheData
    /\ UNCHANGED <<cacheNames, remote, inbox, phase, skipWaiting, claimed, prev, deployed, nev, lastEvent, probe>>

UpdAsset(t, i) == tasks[t].pc = "U_assets" /\ BatchFetch(t, i)

\* lines 285-288: all fetches have settled; await caches.open(newPages)
UpdOpenPages(t) ==
    /\ tasks[t].pc = "U_assets"
    /\ tasks[t].pending = {}
    /\ LET newPages == PagesName(tasks[t].data.version)
       IN  /\ cacheNames' = OpenNames(newPages)
           /\ cacheData' = OpenData(newPages)
           /\ tasks' = [tasks EXCEPT ![t].created = IF HasCache(newPages) THEN @ ELSE @ \cup {newPages},
                                     ![t].handle = Null,
                                     ![t].pc = "U_keys"]
    /\ UNCHANGED <<remote, inbox, phase, skipWaiting, claimed, prev, deployed, nfail, nev, lastEvent, probe>>

\* lines 291-293: keys = await caches.keys(), filtered
UpdKeys(t) ==
    /\ tasks[t].pc = "U_keys"
    /\ tasks' = [tasks EXCEPT ![t].toDelete = StaleKeys(cacheNames, tasks[t].data.version),
                              ![t].pc = "U_delete"]
    /\ UNCHANGED <<cacheNames, cacheData, remote, inbox, phase, skipWaiting, claimed, prev, deployed, nfail, nev, lastEvent, probe>>

\* lines 76 and 294: one caches.delete(k) of the Promise.all completes
GcDelete(t, k) ==
    /\ k \in tasks[t].toDelete
    /\ DeleteBy(t, [tasks[t] EXCEPT !.toDelete = @ \ {k},
                                    !.deleted = IF HasCache(k) THEN @ \cup {k} ELSE @], k)
    /\ UNCHANGED <<remote, inbox, phase, skipWaiting, claimed, prev, deployed, nfail, nev, lastEvent, probe>>

UpdDelete(t, k) == tasks[t].pc = "U_delete" /\ GcDelete(t, k)

\* lines 298-303: every client, controlled or not, is sent the message
UpdNotify(t) ==
    /\ tasks[t].pc = "U_delete"
    /\ tasks[t].toDelete = {}
    /\ inbox' = [c \in Clients |-> Append(inbox[c], tasks[t].data.version)]
    /\ UpdReturn(t, [tasks[t] EXCEPT !.notified = Clients], "updated")
    /\ UNCHANGED <<cacheNames, cacheData, remote, skipWaiting, claimed, deployed, nfail, nev, lastEvent, probe>>

(* ------------------------------ install ------------------------------- *)

\* the install event: the worker is installed once
StartInstall(t) ==
    /\ phase = "parsed"
    /\ Free(t)
    /\ nev < MaxEvents
    /\ nev' = nev + 1
    /\ phase' = "installing"
    /\ tasks' = [tasks EXCEPT ![t] = [NoTask EXCEPT !.kind = "install", !.pc = "I_list", !.startKeys = cacheNames]]
    /\ prev' = NoRun
    /\ UNCHANGED <<cacheNames, cacheData, remote, inbox, skipWaiting, claimed, deployed, nfail, lastEvent, probe>>

\* the handler's promise settles (it never rejects: line 57 catches)
InsReturn(t, r) ==
    /\ tasks' = [tasks EXCEPT ![t] = [r EXCEPT !.pc = "done", !.result = "installed",
                                               !.endKeys = cacheNames, !.handle = Null]]
    /\ phase' = "installed"

\* an install that lets the failure of the manifest fetch reject waitUntil
InsFetchList_Rejects(t) ==
    /\ tasks[t].pc = "I_list"
    /\ \E o \in ManifestOutcomes :
          IF o = "ok"
          THEN /\ tasks' = [tasks EXCEPT ![t].manifest = remote,
                                         ![t].data = fetchRemoteAssetList(remote),
                                         ![t].pc = "I_open"]
               /\ UNCHANGED <<nfail, phase>>
          ELSE /\ nfail < MaxFailures
               /\ nfail' = nfail + 1
               /\ tasks' = [tasks EXCEPT ![t].pc = "done", ![t].result = "failed",
                                         ![t].endKeys = cacheNames]
               /\ phase' = "redundant"
    /\ UNCHANGED <<cacheNames, cacheData, remote, inbox, skipWaiting, claimed, prev, deployed, nev, lastEvent, probe>>

\* line 33: data = await fetchRemoteAssetList(); a failure is caught at line 57
InsFetchList(t) ==
    /\ tasks[t].pc = "I_list"
    /\ \E o \in ManifestOutcomes :
          IF o = "ok"
          THEN /\ tasks' = [tasks EXCEPT ![t].manifest = remote,
                                         ![t].data = fetchRemoteAssetList(remote),
                                         ![t].pc = "I_open"]
               /\ UNCHANGED <<nfail, phase>>
          ELSE /\ nfail < MaxFailures
               /\ nfail' = nfail + 1
               /\ InsReturn(t, tasks[t])
    /\ UNCHANGED <<cacheNames, cacheData, remote, inbox, skipWaiting, claimed, prev, deployed, nev, lastEvent, probe>>

\* lines 35-48: cache = await caches.open(fundCacheName); the fetches start
InsOpen(t) ==
    /\ tasks[t].pc = "I_open"
    /\ LET fundCacheName == FundName(tasks[t].data.version)
           normalized == InstallBatch(tasks[t].data)
       IN  /\ cacheNames' = OpenNames(fundCacheName)
           /\ cacheData' = OpenData(fundCacheName)
           /\ tasks' = [tasks EXCEPT ![t].handle = fundCacheName, ![t].orphan = FALSE,
                                     ![t].batch = normalized,
                                     ![t].had = IF HasCache(fundCacheName) THEN CachedUrls(fundCacheName) ELSE {},
                                     ![t].pending = 1..Len(normalized),
                                     ![t].created = IF HasCache(fundCacheName) THEN @ ELSE @ \cup {fundCacheName},
                                     ![t].pc = "I_assets"]
    /\ UNCHANGED <<remote, inbox, phase, skipWaiting, claimed, prev, deployed, nfail, nev, lastEvent, probe>>

InsAsset(t, i) == tasks[t].pc = "I_assets" /\ BatchFetch(t, i)

\* line 56: the Promise.all of the batch resolves
InsDone(t) ==
    /\ tasks[t].pc = "I_assets"
    /\ tasks[t].pending = {}
    /\ InsReturn(t, tasks[t])
    /\ UNCHANGED <<cacheNames, cacheData, remote, inbox, skipWaiting, claimed, prev, deployed, nfail, nev, lastEvent, probe>>

(* ------------------------------ activate ------------------------------ *)

\* the activate event: after install
StartActivate(t) ==
    /\ phase = "installed"
    /\ Free(t)
    /\ nev < MaxEvents
    /\ nev' = nev + 1
    /\ phase' = "activating"
    /\ tasks' = [tasks EXCEPT ![t] = [NoTask EXCEPT !.kind = "activate", !.pc = "A_resolve", !.startKeys = cacheNames]]
    /\ prev' = NoRun
    /\ UNCHANGED <<cacheNames, cacheData, remote, inbox, skipWaiting, claimed, deployed, nfail, lastEvent, probe>>

\* lines 71-72: current = await getHighestCachedVersion()
ActResolve(t) ==
    /\ tasks[t].pc = "A_resolve"
    /\ LET current == getHighestCachedVersion(cacheNames)
       IN  tasks' = [tasks EXCEPT ![t].current = current,
                                  ![t].pc = IF current # Null THEN "A_keys" ELSE "A_claim"]
    /\ UNCHANGED <<cacheNames, cacheData, remote, inbox, phase, skipWaiting, claimed, prev, deployed, nfail, nev, lastEvent, probe>>

\* lines 73-75: keys = await caches.keys(), filtered
ActKeys(t) ==
    /\ tasks[t].pc = "A_keys"
    /\ tasks' = [tasks EXCEPT ![t].toDelete = StaleKeys(cacheNames, tasks[t].current),
                              ![t].pc = "A_delete"]
    /\ UNCHANGED <<cacheNames, cacheData, remote, inbox, phase, skipWaiting, claimed, prev, deployed, nfail, nev, lastEvent, probe>>

ActDelete(t, k) == tasks[t].pc = "A_delete" /\ GcDelete(t, k)

\* lines 77-82: the deletions are done; await self.clients.claim(); then the
\* Update Checker is called
ActClaim(t) ==
    /\ \/ tasks[t].pc = "A_claim"
       \/ tasks[t].pc = "A_delete" /\ tasks[t].toDelete = {}
    /\ claimed' = TRUE
    /\ tasks' = [tasks EXCEPT ![t].gcKeys = cacheNames, ![t].after = prev,
                              ![t].created = {}, ![t].deleted = {},
                              ![t].pc = "U_list"]
    /\ UNCHANGED <<cacheNames, cacheData, remote, inbox, phase, skipWaiting, prev, deployed, nfail, nev, lastEvent, probe>>

(* ------------------------------ messages ------------------------------ *)

MessageTypes == {"SKIP_WAITING", "CHECK_FOR_UPDATE", "OTHER", "none"}

\* the type of no message: the last event was not a message
NoMsg == "-"

NoEvent == [req |-> NoReq, intercepted |-> FALSE, strategy |-> "none", updates |-> 0, msg |-> NoMsg]

\* a listener that also runs the Update Checker when it is told to skip waiting
MessageEvent_SkipAlsoChecks(t, m) ==
    /\ phase \in {"installed", "activated"}
    /\ nev < MaxEvents
    /\ nev' = nev + 1
    /\ lastEvent' = [NoEvent EXCEPT !.msg = m]
    /\ IF m \in {"SKIP_WAITING", "CHECK_FOR_UPDATE"}
       THEN /\ Free(t)
            /\ tasks' = [tasks EXCEPT ![t] = [NoTask EXCEPT !.kind = "update", !.pc = "U_list",
                                                            !.startKeys = cacheNames, !.after = prev]]
            /\ prev' = NoRun
            /\ skipWaiting' = (skipWaiting \/ m = "SKIP_WAITING")
       ELSE UNCHANGED <<tasks, prev, skipWaiting>>
    /\ UNCHANGED <<cacheNames, cacheData, remote, inbox, phase, claimed, deployed, nfail, probe>>

\* lines 128-138: the message listener, for a message of type m ("none": the
\* message has no type)
MessageEvent(t, m) ==
    /\ phase \in {"installed", "activated"}
    /\ nev < MaxEvents
    /\ nev' = nev + 1
    /\ lastEvent' = [NoEvent EXCEPT !.msg = m]
    /\ IF m = "SKIP_WAITING"
       THEN /\ skipWaiting' = TRUE
            /\ UNCHANGED <<tasks, prev>>
       ELSE IF m = "CHECK_FOR_UPDATE"
       THEN /\ Free(t)
            /\ tasks' = [tasks EXCEPT ![t] = [NoTask EXCEPT !.kind = "update", !.pc = "U_list",
                                                            !.startKeys = cacheNames, !.after = prev]]
            /\ prev' = NoRun
            /\ UNCHANGED skipWaiting
       ELSE UNCHANGED <<tasks, prev, skipWaiting>>
    /\ UNCHANGED <<cacheNames, cacheData, remote, inbox, phase, claimed, deployed, nfail, probe>>

(* --------------------------- request strategies ----------------------- *)

\* the responses fetch(request) can resolve with; it can also reject
NetResponses == {[status |-> 200, body |-> "net"], [status |-> 404, body |-> "net"]}

IsOk(r) == r.status >= 200 /\ r.status <= 299

\* the strategy of task t hands x to respondWith and ends
Respond(t, r, x) ==
    tasks' = [tasks EXCEPT ![t] = [r EXCEPT !.pc = "done", !.resp = x, !.responded = TRUE,
                                            !.handle = Null]]

\* what touches neither the store nor the tasks' budget
frame == <<remote, inbox, phase, skipWaiting, claimed, prev, deployed, nev, lastEvent, probe>>

\* a settlement whose fallback is the 503 response for every request
CfSettle_Always503(t, r, x) ==
    IF r.responded
    THEN tasks' = [tasks EXCEPT ![t] = [r EXCEPT !.pc = "done", !.handle = Null]]
    ELSE Respond(t, r, IF x # NoResp THEN x ELSE [status |-> 503, body |-> "empty"])

\* a settlement that returns the network's response whatever was cached
CfSettle_NetworkWins(t, r, x) ==
    Respond(t, r, IF x # NoResp THEN x ELSE [status |-> 503, body |-> "empty"])

\* lines 191-211: fetchPromise settles with x (NoResp for null); when nothing
\* was returned yet, x or the fallback response is returned
CfSettle(t, r, x) ==
    LET dest == r.req.destination
        fallback == IF dest = "image" \/ IsFaviconUrl(r.req)
                    THEN [status |-> 204, body |-> "null"]
                    ELSE [status |-> 503, body |-> "empty"]
    IN  IF r.responded
        THEN tasks' = [tasks EXCEPT ![t] = [r EXCEPT !.pc = "done", !.handle = Null]]
        ELSE Respond(t, r, IF x # NoResp THEN x ELSE fallback)

\* the strategy of task t goes on with x, the outcome of its network fetch
Settle(t, r, x) == IF r.kind = "networkFirst" THEN Respond(t, r, x) ELSE CfSettle(t, r, x)

\* a resolution that falls back to the version "1" when no version is cached
MirrorResolve_DefaultVersion(t, openPc) ==
    LET found == getHighestCachedVersion(cacheNames)
        current == IF found # Null THEN found ELSE <<"1">>
    IN  /\ tasks' = [tasks EXCEPT ![t].current = current, ![t].pc = openPc]
        /\ UNCHANGED <<cacheNames, cacheData, nfail>>

\* lines 149-150 and 184-185: current = await getHighestCachedVersion(), in
\* task t, which goes on to open the pages cache or settles
MirrorResolve(t, openPc) ==
    LET current == getHighestCachedVersion(cacheNames)
        r == [tasks[t] EXCEPT !.current = current]
    IN  /\ IF current # Null
           THEN tasks' = [tasks EXCEPT ![t] = [r EXCEPT !.pc = openPc]]
           ELSE Settle(t, r, r.net)
        /\ UNCHANGED <<cacheNames, cacheData, nfail>>

\* an open whose rejection is not caught: the strategy ends without the response
MirrorOpen_Throws(t, putPc) ==
    LET n == PagesName(tasks[t].current)
    IN  \/ /\ cacheNames' = OpenNames(n)
           /\ cacheData' = OpenData(n)
           /\ tasks' = [tasks EXCEPT ![t].handle = n, ![t].orphan = FALSE,
                                     ![t].created = IF HasCache(n) THEN @ ELSE @ \cup {n},
                                     ![t].pc = putPc]
           /\ UNCHANGED nfail
        \/ /\ nfail < MaxFailures
           /\ nfail' = nfail + 1
           /\ Settle(t, tasks[t], NoResp)
           /\ UNCHANGED <<cacheNames, cacheData>>

\* a mirror that opens the fundamentals cache of the resolved version
MirrorOpen_Fundamentals(t, putPc) ==
    LET n == FundName(tasks[t].current)
    IN  \/ /\ cacheNames' = OpenNames(n)
           /\ cacheData' = OpenData(n)
           /\ tasks' = [tasks EXCEPT ![t].handle = n, ![t].orphan = FALSE,
                                     ![t].created = IF HasCache(n) THEN @ ELSE @ \cup {n},
                                     ![t].pc = putPc]
           /\ UNCHANGED nfail
        \/ /\ nfail < MaxFailures
           /\ nfail' = nfail + 1
           /\ Settle(t, tasks[t], tasks[t].net)
           /\ UNCHANGED <<cacheNames, cacheData>>

\* lines 151 and 186: await caches.open(`${CACHE_PREFIX}${current}::pages`); a
\* rejection is caught
MirrorOpen(t, putPc) ==
    LET n == PagesName(tasks[t].current)
    IN  \/ /\ cacheNames' = OpenNames(n)
           /\ cacheData' = OpenData(n)
           /\ tasks' = [tasks EXCEPT ![t].handle = n, ![t].orphan = FALSE,
                                     ![t].created = IF HasCache(n) THEN @ ELSE @ \cup {n},
                                     ![t].pc = putPc]
           /\ UNCHANGED nfail
        \/ /\ nfail < MaxFailures
           /\ nfail' = nfail + 1
           /\ Settle(t, tasks[t], tasks[t].net)
           /\ UNCHANGED <<cacheNames, cacheData>>

\* a put that resolves without storing anything
MirrorPut_Drops(t) ==
    /\ Settle(t, [tasks[t] EXCEPT !.wrote = @ \cup {tasks[t].handle}], tasks[t].net)
    /\ UNCHANGED <<cacheNames, cacheData, nfail>>

\* lines 152 and 187: await pages.put(request, resp.clone()); put rejects a
\* request whose scheme is not http(s), and any rejection is caught
MirrorPut(t) ==
    LET n == tasks[t].handle
        req == tasks[t].req
    IN  \/ /\ req.scheme = "https"
           /\ cacheData' = IF tasks[t].orphan THEN cacheData ELSE PutData(n, req.url, tasks[t].net)
           /\ Settle(t, [tasks[t] EXCEPT !.wrote = @ \cup {n}], tasks[t].net)
           /\ UNCHANGED <<cacheNames, nfail>>
        \/ /\ req.scheme # "https"
           /\ Settle(t, tasks[t], tasks[t].net)
           /\ UNCHANGED <<cacheNames, cacheData, nfail>>
        \/ /\ req.scheme = "https"
           /\ nfail < MaxFailures
           /\ nfail' = nfail + 1
           /\ Settle(t, tasks[t], tasks[t].net)
           /\ UNCHANGED <<cacheNames, cacheData>>

\* a fetch whose non-ok response is treated like a rejection
NfFetch_NotOkFallsBack(t) ==
    /\ tasks[t].pc = "N_fetch"
    /\ \/ \E r \in NetResponses :
             /\ IsOk(r) \/ nfail < MaxFailures
             /\ nfail' = IF IsOk(r) THEN nfail ELSE nfail + 1
             /\ tasks' = [tasks EXCEPT ![t].net = r,
                                       ![t].pc = IF IsOk(r) THEN "N_resolve" ELSE "N_match"]
       \/ /\ nfail < MaxFailures
          /\ nfail' = nfail + 1
          /\ tasks' = [tasks EXCEPT ![t].pc = "N_match"]
    /\ UNCHANGED <<cacheNames, cacheData>>
    /\ UNCHANGED frame

\* line 146: networkResponse = await fetch(request); a rejection goes to line 156
NfFetch(t) ==
    /\ tasks[t].pc = "N_fetch"
    /\ \/ \E r \in NetResponses :
             /\ IsOk(r) \/ nfail < MaxFailures
             /\ nfail' = IF IsOk(r) THEN nfail ELSE nfail + 1
             /\ tasks' = [tasks EXCEPT ![t].net = r, ![t].pc = "N_resolve"]
       \/ /\ nfail < MaxFailures
          /\ nfail' = nfail + 1
          /\ tasks' = [tasks EXCEPT ![t].pc = "N_match"]
    /\ UNCHANGED <<cacheNames, cacheData>>
    /\ UNCHANGED frame

NfResolve(t) == tasks[t].pc = "N_resolve" /\ MirrorResolve(t, "N_open") /\ UNCHANGED frame

NfOpen(t) == tasks[t].pc = "N_open" /\ MirrorOpen(t, "N_put") /\ UNCHANGED frame

\* lines 152-155
NfPut(t) == tasks[t].pc = "N_put" /\ MirrorPut(t) /\ UNCHANGED frame

\* lines 158-159: cached = await caches.match(request)
NfMatch(t) ==
    /\ tasks[t].pc = "N_match"
    /\ LET cached == CachesMatchRequest(tasks[t].req)
           r == [tasks[t] EXCEPT !.looked = <<[url |-> tasks[t].req.url, found |-> StoredFor(tasks[t].req)]>>]
       IN  IF cached # NoResp
           THEN Respond(t, r, cached)
           ELSE tasks' = [tasks EXCEPT ![t] = [r EXCEPT !.pc = "N_root"]]
    /\ UNCHANGED <<cacheNames, cacheData, nfail>>
    /\ UNCHANGED frame

\* lines 162-166: one caches.match of the app-shell chain, for the file f; the
\* next one is tried at nextPc when there is no match
NfShell(t, pc, f, nextPc) ==
    /\ tasks[t].pc = pc
    /\ LET scopeBase == ensureTrailingSlash(SCOPE)
           url == URLResolve(f, scopeBase)
           appShellMatch == CachesMatch(url)
           r == [tasks[t] EXCEPT !.looked = Append(@, [url |-> url, found |-> StoredAt(url)])]
       IN  IF appShellMatch # NoResp
           THEN Respond(t, r, appShellMatch)
           ELSE tasks' = [tasks EXCEPT ![t] = [r EXCEPT !.pc = nextPc]]
    /\ UNCHANGED <<cacheNames, cacheData, nfail>>
    /\ UNCHANGED frame

NfRoot(t) == NfShell(t, "N_root", <<>>, "N_index")

\* a chain that looks for 404.html before index.html
NfIndex_404First(t) == NfShell(t, "N_index", <<"404.html">>, "N_404")

NfIndex(t) == NfShell(t, "N_index", <<"index.html">>, "N_404")

Nf404(t) == NfShell(t, "N_404", <<"404.html">>, "N_503")

\* lines 169-173: the synthesized offline document
NfUnavailable(t) ==
    /\ tasks[t].pc = "N_503"
    /\ Respond(t, tasks[t], [status |-> 503, body |-> "html"])
    /\ UNCHANGED <<cacheNames, cacheData, nfail>>
    /\ UNCHANGED frame

NetworkFirst(t) ==
    \/ NfFetch(t)
    \/ NfResolve(t)
    \/ NfOpen(t)
    \/ NfPut(t)
    \/ NfMatch(t)
    \/ NfRoot(t)
    \/ NfIndex(t)
    \/ Nf404(t)
    \/ NfUnavailable(t)

\* a lookup whose result is held back until the network fetch has settled
CfMatch_WaitsForNetwork(t) ==
    /\ tasks[t].pc = "C_match"
    /\ tasks' = [tasks EXCEPT ![t].seen = StoredFor(tasks[t].req),
                              ![t].pc = "B_fetch"]
    /\ UNCHANGED <<cacheNames, cacheData, nfail>>
    /\ UNCHANGED frame

\* lines 179-197: cached = await caches.match(request); the refresh is started,
\* and a cached response is returned at once
CfMatch(t) ==
    /\ tasks[t].pc = "C_match"
    /\ LET cached == CachesMatchRequest(tasks[t].req)
       IN  tasks' = [tasks EXCEPT ![t].seen = StoredFor(tasks[t].req),
                                  ![t].resp = cached,
                                  ![t].responded = (cached # NoResp),
                                  ![t].pc = "B_fetch"]
    /\ UNCHANGED <<cacheNames, cacheData, nfail>>
    /\ UNCHANGED frame

\* lines 181-182: fetch(request) settles
CfFetch(t) ==
    /\ tasks[t].pc = "B_fetch"
    /\ \/ \E r \in NetResponses :
             IF IsOk(r)
             THEN /\ tasks' = [tasks EXCEPT ![t].net = r, ![t].pc = "B_resolve"]
                  /\ UNCHANGED nfail
             ELSE /\ nfail < MaxFailures
                  /\ nfail' = nfail + 1
                  /\ CfSettle(t, [tasks[t] EXCEPT !.net = r], r)
       \/ /\ nfail < MaxFailures
          /\ nfail' = nfail + 1
          /\ CfSettle(t, tasks[t], NoResp)
    /\ UNCHANGED <<cacheNames, cacheData>>
    /\ UNCHANGED frame

CfResolve(t) == tasks[t].pc = "B_resolve" /\ MirrorResolve(t, "B_open") /\ UNCHANGED frame

CfOpen(t) == tasks[t].pc = "B_open" /\ MirrorOpen(t, "B_put") /\ UNCHANGED frame

\* lines 187-190
CfPut(t) == tasks[t].pc = "B_put" /\ MirrorPut(t) /\ UNCHANGED frame

CacheFirstThenUpdate(t) ==
    \/ CfMatch(t)
    \/ CfFetch(t)
    \/ CfResolve(t)
    \/ CfOpen(t)
    \/ CfPut(t)

\* a handler that returns whatever response the network gives
FavFetch_ReturnsAny(t) ==
    /\ tasks[t].pc = "F_fetch"
    /\ \/ \E r \in NetResponses :
             /\ IsOk(r) \/ nfail < MaxFailures
             /\ nfail' = IF IsOk(r) THEN nfail ELSE nfail + 1
             /\ Respond(t, [tasks[t] EXCEPT !.net = r], r)
       \/ /\ nfail < MaxFailures
          /\ nfail' = nfail + 1
          /\ tasks' = [tasks EXCEPT ![t].pc = "F_match"]
    /\ UNCHANGED <<cacheNames, cacheData>>
    /\ UNCHANGED frame

\* lines 376-379: r = await fetch(request); an ok response is returned
FavFetch(t) ==
    /\ tasks[t].pc = "F_fetch"
    /\ \/ \E r \in NetResponses :
             IF IsOk(r)
             THEN /\ Respond(t, [tasks[t] EXCEPT !.net = r], r)
                  /\ UNCHANGED nfail
             ELSE /\ nfail < MaxFailures
                  /\ nfail' = nfail + 1
                  /\ tasks' = [tasks EXCEPT ![t].net = r, ![t].pc = "F_match"]
       \/ /\ nfail < MaxFailures
          /\ nfail' = nfail + 1
          /\ tasks' = [tasks EXCEPT ![t].pc = "F_match"]
    /\ UNCHANGED <<cacheNames, cacheData>>
    /\ UNCHANGED frame

\* lines 382-386: the cached entry, or an empty 204
FavMatch(t) ==
    /\ tasks[t].pc = "F_match"
    /\ LET cached == CachesMatchRequest(tasks[t].req)
           r == [tasks[t] EXCEPT !.seen = StoredFor(tasks[t].req)]
       IN  Respond(t, r, IF cached # NoResp THEN cached ELSE [status |-> 204, body |-> "null"])
    /\ UNCHANGED <<cacheNames, cacheData, nfail>>
    /\ UNCHANGED frame

HandleFaviconRequest(t) ==
    \/ FavFetch(t)
    \/ FavMatch(t)

(* --------------------------- the fetch listener ----------------------- *)

\* "text/html" occurs in the Accept header (a list of media types, none when
\* the header is missing)
AcceptsHtml(req) == "text/html" \in Range(req.accept)

\* a listener that tests for a navigation before it tests for the manifest
Dispatch_NavigationFirst(req) ==
    IF req.method # "GET"
    THEN [intercepted |-> FALSE, strategy |-> "none", updates |-> 0]
    ELSE IF IsFaviconUrl(req)
    THEN [intercepted |-> TRUE, strategy |-> "handleFaviconRequest", updates |-> 0]
    ELSE IF req.mode = "navigate" \/ AcceptsHtml(req)
    THEN [intercepted |-> TRUE, strategy |-> "networkFirst", updates |-> 1]
    ELSE IF urlsEqualSansHash(req, REMOTE_ASSET_LIST)
    THEN [intercepted |-> TRUE, strategy |-> "networkFirst", updates |-> 0]
    ELSE [intercepted |-> TRUE, strategy |-> "cacheFirstThenUpdate", updates |-> 0]

\* lines 92-123: whether the listener calls respondWith, with which strategy,
\* and how many Update Checker runs it starts
Dispatch(req) ==
    IF req.method # "GET"
    THEN [intercepted |-> FALSE, strategy |-> "none", updates |-> 0]
    ELSE IF IsFaviconUrl(req)
    THEN [intercepted |-> TRUE, strategy |-> "handleFaviconRequest", updates |-> 0]
    ELSE IF urlsEqualSansHash(req, REMOTE_ASSET_LIST)
    THEN [intercepted |-> TRUE, strategy |-> "networkFirst", updates |-> 0]
    ELSE IF req.mode = "navigate" \/ AcceptsHtml(req)
    THEN [intercepted |-> TRUE, strategy |-> "networkFirst", updates |-> 1]
    ELSE [intercepted |-> TRUE, strategy |-> "cacheFirstThenUpdate", updates |-> 0]

\* the task that runs strategy for req
StrategyTask(strategy, req) ==
    [NoTask EXCEPT !.req = req,
                   !.startKeys = cacheNames,
                   !.kind = strategy,
                   !.pc = IF strategy = "networkFirst" THEN "N_fetch"
                          ELSE IF strategy = "cacheFirstThenUpdate" THEN "C_match"
                          ELSE "F_fetch"]

\* the fetch event for req: the strategy runs in slot t, the Update Checker,
\* when one is started, in slot u
FetchEvent(t, u, req) ==
    /\ phase = "activated"
    /\ nev < MaxEvents
    /\ nev' = nev + 1
    /\ LET d == Dispatch(req)
       IN  /\ lastEvent' = [req |-> req, intercepted |-> d.intercepted,
                            strategy |-> d.strategy, updates |-> d.updates, msg |-> NoMsg]
           /\ IF ~d.intercepted
              THEN UNCHANGED tasks
              ELSE /\ Free(t)
                   /\ d.updates = 1 => Free(u) /\ u # t
                   /\ tasks' = [x \in DOMAIN tasks |->
                                   IF x = t THEN StrategyTask(d.strategy, req)
                                   ELSE IF x = u /\ d.updates = 1
                                   THEN [NoTask EXCEPT !.kind = "update", !.pc = "U_list",
                                                       !.startKeys = cacheNames, !.after = prev]
                                   ELSE tasks[x]]
    /\ prev' = NoRun
    /\ UNCHANGED <<cacheNames, cacheData, remote, inbox, phase, skipWaiting, claimed, deployed, nfail, probe>>

(* ---------------------------- the environment -------------------------- *)

V1 == <<"1">>

V10 == <<"1", "0">>

V2 == <<"2">>

\* "1" < "10" < "2", and "1" is a prefix of "10"
Versions == {V1, V10, V2}

AssetA == [form |-> "rel", path |-> <<"a.js">>, pad |-> FALSE]

AssetAHost == [form |-> "host", path |-> <<"cadoku", "a.js">>, pad |-> TRUE]

AssetB == [form |-> "rel", path |-> <<"b.css">>, pad |-> FALSE]

AssetLists == {<<AssetA, AssetAHost>>, <<AssetA, AssetB>>}

Manifests == [version : Versions, assets : AssetLists]

\* a cache of another script of the origin
FOREIGN == <<"m", "y", "s", "i", "t", "e", "-", "d", "y", "n", "a", "m", "i", "c">>

NamePool ==
    <<FundName(V1), PagesName(V1), FundName(V10), PagesName(V10), FundName(V2), PagesName(V2), FOREIGN>>

\* the names of S in the order of NamePool
Ordered(pool, S) == SelectSeq(pool, LAMBDA n : n \in S)

\* A new build is published.  Only a fetch of the manifest observes it, so it
\* is taken when a handler is about to fetch the manifest or none is running.
Deploy(m) ==
    /\ m.version # remote.version
    /\ \/ \A t \in DOMAIN tasks : Free(t)
       \/ \E t \in DOMAIN tasks : tasks[t].pc \in {"I_list", "U_list"}
    /\ Len(deployed) <= MaxDeploys
    /\ remote' = m
    /\ deployed' = Append(deployed, m.version)
    /\ prev' = NoRun
    /\ UNCHANGED <<cacheNames, cacheData, tasks, inbox, phase, skipWaiting, claimed, nfail, nev, lastEvent, probe>>

NoProbe == [keys |-> <<>>, result |-> Null, applied |-> FALSE]

OldResponse == [status |-> 200, body |-> "old"]

\* the caches named names, all empty
EmptyCaches(names) == [n \in Range(names) |-> {}]

\* the caches named names as an earlier worker of version "1" left them: a.js
\* is stored in the fundamentals namespace of "1"
UsedCaches(names) ==
    [n \in Range(names) |->
        IF n = FundName(V1) THEN {[url |-> <<"cadoku", "a.js">>, resp |-> OldResponse]} ELSE {}]

InitCommon ==
    /\ remote \in Manifests
    /\ inbox = [c \in Clients |-> <<>>]
    /\ skipWaiting = FALSE
    /\ claimed = FALSE
    /\ prev = NoRun
    /\ deployed = <<remote.version>>
    /\ nfail = 0
    /\ nev = 0
    /\ lastEvent = NoEvent
    /\ probe = NoProbe

(* ------------- one handler at a time: install, activate, update -------- *)

InitSeq ==
    /\ cacheNames \in {Ordered(NamePool, S) : S \in {T \in SUBSET Range(NamePool) : Cardinality(T) <= MaxInitCaches}}
    /\ cacheData \in {EmptyCaches(cacheNames), UsedCaches(cacheNames)}
    /\ phase \in {"parsed", "activated"}
    /\ tasks = [t \in {1} |-> NoTask]
    /\ InitCommon

\* the batch member whose fetch settles next when a single handler runs: no
\* other handler can observe the order, so the fetches are taken in list order
First(pending) == {i \in pending : \A j \in pending : i <= j}

Lifecycle(t) ==
    \/ StartInstall(t)
    \/ InsFetchList(t)
    \/ InsOpen(t)
    \/ \E i \in First(tasks[t].pending) : InsAsset(t, i)
    \/ InsDone(t)
    \/ StartActivate(t)
    \/ ActResolve(t)
    \/ ActKeys(t)
    \/ \E k \in tasks[t].toDelete : ActDelete(t, k)
    \/ ActClaim(t)

Update(t) ==
    \/ UpdFetchList(t)
    \/ UpdResolve(t)
    \/ UpdOpenFund(t)
    \/ \E i \in tasks[t].pending : UpdAsset(t, i)
    \/ UpdOpenPages(t)
    \/ UpdKeys(t)
    \/ \E k \in tasks[t].toDelete : UpdDelete(t, k)
    \/ UpdNotify(t)

NextSeq ==
    \/ \E t \in DOMAIN tasks : Lifecycle(t) \/ Update(t)
    \/ \E t \in DOMAIN tasks, m \in MessageTypes : MessageEvent(t, m)
    \/ \E m \in Manifests : Deploy(m)

SpecSeq == InitSeq /\ [][NextSeq]_vars

(* ------------------ getHighestCachedVersion on its own ------------------ *)

\* names that look like the worker's but are not: no version, no prefix, no role
OddNames == <<CACHE_PREFIX \o FUND_SUFFIX, FOREIGN \o FUND_SUFFIX, CACHE_PREFIX \o V1>>

ResolverPool == NamePool \o OddNames

Reverse(s) == [i \in 1..Len(s) |-> s[Len(s) + 1 - i]]

InitResolver ==
    /\ cacheNames \in {Ordered(ResolverPool, S) : S \in SUBSET Range(ResolverPool)}
                      \cup {Ordered(Reverse(ResolverPool), S) : S \in SUBSET Range(ResolverPool)}
    /\ phase = "activated"
    /\ tasks = [t \in {1} |-> NoTask]
    /\ remote = [version |-> V1, assets |-> <<AssetA, AssetB>>]
    /\ cacheData = EmptyCaches(cacheNames)
    /\ InitCommon

\* lines 346-355: the resolver is applied to the store as it is
Resolve ==
    /\ ~probe.applied
    /\ probe' = [keys |-> cacheNames, result |-> getHighestCachedVersion(cacheNames), applied |-> TRUE]
    /\ UNCHANGED <<cacheNames, cacheData, remote, tasks, inbox, phase, skipWaiting, claimed, prev, deployed, nfail, nev, lastEvent>>

NextResolver == Resolve

SpecResolver == InitResolver /\ [][NextResolver]_vars

(* ------------------- the activated worker: concurrent handlers --------- *)

PageReq ==
    [method |-> "GET", scheme |-> "https", url |-> <<"cadoku", "play">>, hash |-> FALSE,
     mode |-> "navigate", accept |-> <<"text/html", "*/*">>, destination |-> "document"]

AssetReq ==
    [method |-> "GET", scheme |-> "https", url |-> <<"cadoku", "a.js">>, hash |-> FALSE,
     mode |-> "no-cors", accept |-> <<"*/*">>, destination |-> "script"]

FaviconReq ==
    [method |-> "GET", scheme |-> "https", url |-> <<"cadoku", "favicon.ico">>, hash |-> FALSE,
     mode |-> "no-cors", accept |-> <<"image/*">>, destination |-> "image"]

ManifestReq ==
    [method |-> "GET", scheme |-> "https", url |-> REMOTE_ASSET_LIST, hash |-> FALSE,
     mode |-> "cors", accept |-> <<"*/*">>, destination |-> ""]

ExtensionReq ==
    [method |-> "GET", scheme |-> "chrome-extension", url |-> <<"ext", "inject.js">>, hash |-> FALSE,
     mode |-> "no-cors", accept |-> <<"*/*">>, destination |-> "script"]

PostReq ==
    [method |-> "POST", scheme |-> "https", url |-> <<"cadoku", "play">>, hash |-> FALSE,
     mode |-> "cors", accept |-> <<"*/*">>, destination |-> ""]

RequestsSmall == {PageReq, AssetReq, FaviconReq, ManifestReq, ExtensionReq, PostReq}

\* what an earlier install of version "1" and earlier visits left behind
InstalledV1 ==
    [names |-> <<FundName(V1), PagesName(V1)>>,
     data |-> (FundName(V1) :> {[url |-> <<"cadoku", "">>, resp |-> OldResponse],
                                [url |-> <<"cadoku", "a.js">>, resp |-> OldResponse]})
              @@ (PagesName(V1) :> {[url |-> <<"cadoku", "favicon.ico">>, resp |-> OldResponse]})]

EmptyStore == [names |-> <<>>, data |-> <<>>]

Slots == {1, 2}

\* the slot a new handler takes: the slots are interchangeable, so the first one
\* unless it is busy
SlotFor == IF Free(1) THEN {1} ELSE {2}

\* the builds published while the worker is active
Builds == {m \in Manifests : m.assets = <<AssetA, AssetB>> /\ m.version \in {V1, V10}}

Init ==
    /\ \E st \in {EmptyStore, InstalledV1} : cacheNames = st.names /\ cacheData = st.data
    /\ remote \in Builds
    /\ phase = "activated"
    /\ tasks = [t \in Slots |-> NoTask]
    /\ inbox = [c \in Clients |-> <<>>]
    /\ skipWaiting = FALSE
    /\ claimed = TRUE
    /\ prev = NoRun
    /\ deployed = <<remote.version>>
    /\ nfail = 0
    /\ nev = 0
    /\ lastEvent = NoEvent
    /\ probe = NoProbe

Next ==
    \/ \E t \in DOMAIN tasks : Update(t)
    \/ \E t \in DOMAIN tasks : NetworkFirst(t)
    \/ \E t \in DOMAIN tasks : CacheFirstThenUpdate(t)
    \/ \E t \in DOMAIN tasks : HandleFaviconRequest(t)
    \/ \E t \in SlotFor, u \in DOMAIN tasks, req \in RequestsSmall : FetchEvent(t, u, req)
    \/ \E t \in SlotFor, m \in MessageTypes : MessageEvent(t, m)
    \/ \E m \in Builds : Deploy(m)

Spec == Init /\ [][Next]_vars

(* ---------------------- the strategies on their own --------------------- *)

ImageReq ==
    [method |-> "GET", scheme |-> "https", url |-> <<"cadoku", "logo.png">>, hash |-> FALSE,
     mode |-> "no-cors", accept |-> <<"image/*">>, destination |-> "image"]

\* the documents an offline navigation can fall back to, each stored with a
\* body of its own
FallbackEntries ==
    {[url |-> <<"cadoku", "play">>, resp |-> [status |-> 200, body |-> "page"]],
     [url |-> <<"cadoku", "">>, resp |-> [status |-> 200, body |-> "root"]],
     [url |-> <<"cadoku", "index.html">>, resp |-> [status |-> 200, body |-> "index"]],
     [url |-> <<"cadoku", "404.html">>, resp |-> [status |-> 200, body |-> "404"]]}

RequestsStrategies == {PageReq, AssetReq, ImageReq}

InitStrategies ==
    /\ cacheNames = <<FundName(V1)>>
    /\ cacheData \in {(FundName(V1) :> E) : E \in SUBSET FallbackEntries}
    /\ remote = [version |-> V1, assets |-> <<AssetA, AssetB>>]
    /\ phase = "activated"
    /\ tasks = [t \in Slots |-> NoTask]
    /\ inbox = [c \in Clients |-> <<>>]
    /\ skipWaiting = FALSE
    /\ claimed = TRUE
    /\ prev = NoRun
    /\ deployed = <<remote.version>>
    /\ nfail = 0
    /\ nev = 0
    /\ lastEvent = NoEvent
    /\ probe = NoProbe

NextStrategies ==
    \/ \E t \in SlotFor, u \in DOMAIN tasks, req \in RequestsStrategies : FetchEvent(t, u, req)
    \/ \E t \in DOMAIN tasks : NetworkFirst(t)
    \/ \E t \in DOMAIN tasks : CacheFirstThenUpdate(t)

SpecStrategies == InitStrategies /\ [][NextStrategies]_vars

(* ------------------------- the fetch listener alone --------------------- *)

Requests ==
    [method : {"GET", "POST"},
     scheme : {"https", "chrome-extension"},
     url : {<<"cadoku", "play">>, <<"cadoku", "a.js">>, <<"cadoku", "favicon.ico">>, REMOTE_ASSET_LIST},
     hash : BOOLEAN,
     mode : {"navigate", "no-cors"},
     accept : {<<>>, <<"text/html", "*/*">>, <<"*/*">>},
     destination : {""}]

InitDispatch ==
    /\ cacheNames = <<>>
    /\ phase = "activated"
    /\ tasks = [t \in Slots |-> NoTask]
    /\ remote = [version |-> V1, assets |-> <<AssetA, AssetB>>]
    /\ cacheData = EmptyCaches(cacheNames)
    /\ InitCommon

NextDispatch == \E t \in SlotFor, u \in DOMAIN tasks, req \in Requests : FetchEvent(t, u, req)

SpecDispatch == InitDispatch /\ [][NextDispatch]_vars

(* ------------------------------ properties ---------------------------- *)

\* the name n belongs to version v: it is v's fundamentals or v's pages namespace
BelongsTo(n, v) == n = FundName(v) \/ n = PagesName(v)

\* the versions v for which keys holds the name CACHE_PREFIX + v + "::fundamentals"
FundVersionsOf(keys) ==
    {v \in UNION {{SubSeq(k, i, j) : i \in 1..Len(k), j \in 1..Len(k)} : k \in Range(keys)} :
        v # <<>> /\ FundName(v) \in Range(keys)}

\* the fixed app-shell paths: root, index.html, 404.html, manifest.json
AppShellUrls ==
    {<<"cadoku", "">>, <<"cadoku", "index.html">>, <<"cadoku", "404.html">>, <<"cadoku", "manifest.json">>}

\* the absolute URLs of the assets the manifest m lists
AssetUrls(m) == {normalizeAssetUrl(m.assets[i]) : i \in 1..Len(m.assets)}

\* C1 (as claimed): when an Update Checker run that found the remote version
\* different from the local one completes, every namespace in the store belongs
\* to the new remote version.
C1_OnlyRemoteVersionRemains ==
    \A t \in DOMAIN tasks :
        tasks[t].result = "updated" =>
            \A n \in Range(tasks[t].endKeys) : BelongsTo(n, tasks[t].data.version)

\* C2 (as claimed): when the garbage collection of the activate handler has
\* finished, every remaining namespace belongs to the version the Version
\* Resolver returned.
C2_ActivateKeepsOneVersion ==
    \A t \in DOMAIN tasks :
        (/\ tasks[t].kind = "activate"
         /\ tasks[t].pc \notin {"A_resolve", "A_keys", "A_delete"}
         /\ tasks[t].current # Null) =>
            \A n \in Range(tasks[t].gcKeys) : BelongsTo(n, tasks[t].current)

\* C3: an Update Checker run that follows a completed run, with the same remote
\* manifest, creates no namespace and deletes none.
C3_SecondRunTouchesNoNamespace ==
    \A t \in DOMAIN tasks :
        (tasks[t].after # NoRun /\ tasks[t].manifest = tasks[t].after.manifest) =>
            tasks[t].created = {} /\ tasks[t].deleted = {}

\* a second run has completed after a first one that updated to the same manifest
C3_Witness ==
    \E t \in DOMAIN tasks :
        /\ tasks[t].after.result = "updated"
        /\ tasks[t].manifest = tasks[t].after.manifest
        /\ tasks[t].pc = "done"
        /\ tasks[t].result \in {"noop", "updated"}

\* C4: the Version Resolver returns the lexicographically greatest version among
\* the names CACHE_PREFIX + version + "::fundamentals", null when there is none,
\* whatever pages-role and foreign names the store holds, and leaves the store
\* as it was.
C4_ResolverReturnsGreatest ==
    probe.applied =>
        LET S == FundVersionsOf(probe.keys)
        IN  /\ S = {} => probe.result = Null
            /\ S # {} => probe.result \in S /\ \A w \in S : ~StrLess(probe.result, w)
            /\ cacheNames = probe.keys

\* the resolver picked "10" over "1" in a store that also holds a pages
\* namespace of the greater version "2" and a foreign name
C4_Witness ==
    /\ probe.applied
    /\ {FundName(V1), FundName(V10), PagesName(V2), FOREIGN} \subseteq Range(probe.keys)
    /\ FundName(V2) \notin Range(probe.keys)
    /\ probe.result = V10

\* C6: an install on an empty store whose manifest fetch and resource fetches
\* all succeed ends with a fundamentals namespace of the manifest's version
\* that holds every manifest asset and every app-shell path, and with no other
\* namespace.
C6_FreshInstallPrecaches ==
    \A t \in DOMAIN tasks :
        (/\ tasks[t].kind = "install"
         /\ tasks[t].pc = "done"
         /\ tasks[t].startKeys = <<>>
         /\ tasks[t].manifest # NoManifest
         /\ tasks[t].missed = {}) =>
            /\ cacheNames = <<FundName(tasks[t].manifest.version)>>
            /\ tasks[t].endKeys = cacheNames
            /\ tasks[t].created = {FundName(tasks[t].manifest.version)}
            /\ AssetUrls(tasks[t].manifest) \cup AppShellUrls
                   \subseteq CachedUrls(FundName(tasks[t].manifest.version))

\* a fresh install of a manifest with two different assets has completed
C6_Witness ==
    \E t \in DOMAIN tasks :
        /\ tasks[t].kind = "install"
        /\ tasks[t].pc = "done"
        /\ tasks[t].startKeys = <<>>
        /\ tasks[t].manifest.assets = <<AssetA, AssetB>>
        /\ tasks[t].missed = {}

\* C7 (as claimed): after an updating run in which every fetch succeeded, the
\* fundamentals namespace of the remote version holds every remote manifest
\* asset and the app-shell paths, and the pages namespace of the remote version
\* exists.
C7_UpdatePrecachesAssetsAndShell ==
    \A t \in DOMAIN tasks :
        (/\ tasks[t].kind = "update"
         /\ tasks[t].result = "updated"
         /\ tasks[t].missed = {}) =>
            /\ PagesName(tasks[t].data.version) \in Range(tasks[t].endKeys)
            /\ FundName(tasks[t].data.version) \in Range(cacheNames)
            /\ AssetUrls(tasks[t].manifest) \cup AppShellUrls
                   \subseteq CachedUrls(FundName(tasks[t].data.version))

\* C5: when an entry for the request is in the store at the lookup of
\* cacheFirstThenUpdate, the response the handler returns is that stored entry,
\* however the network refresh ends.
C5_StoredEntryIsReturned ==
    \A t \in DOMAIN tasks :
        (/\ tasks[t].kind = "cacheFirstThenUpdate"
         /\ tasks[t].pc # "C_match"
         /\ tasks[t].seen # {}) =>
            tasks[t].responded /\ tasks[t].resp \in tasks[t].seen

\* the refresh of a stored resource has failed, and the handler is through
C5_Witness ==
    \E t \in DOMAIN tasks :
        /\ tasks[t].kind = "cacheFirstThenUpdate"
        /\ tasks[t].pc = "done"
        /\ tasks[t].seen # {}
        /\ ~IsOk(tasks[t].net)

\* the number of times v occurs in the sequence s
CountOf(s, v) == Cardinality({i \in 1..Len(s) : s[i] = v})

\* C8 (as claimed): a client receives no more NEW_VERSION_AVAILABLE messages
\* for a version than that version was deployed, also when Update Checker runs
\* overlap.
C8_OneNotificationPerChange ==
    \A c \in Clients : \A v \in Versions : CountOf(inbox[c], v) <= CountOf(deployed, v)

\* C9 (as claimed): a request is answered through respondWith only if its
\* method is GET and its scheme is http or https.
C9_InterceptedOnlyGetHttp ==
    lastEvent.intercepted =>
        lastEvent.req.method = "GET" /\ lastEvent.req.scheme \in {"http", "https"}

\* the strategy and the number of update checks the dispatch rule names for req
RuleFor(req) ==
    IF req.scheme = "https" /\ req.url = REMOTE_ASSET_LIST
    THEN [strategy |-> "networkFirst", updates |-> 0]
    ELSE IF req.mode = "navigate" \/ "text/html" \in Range(req.accept)
    THEN [strategy |-> "networkFirst", updates |-> 1]
    ELSE [strategy |-> "cacheFirstThenUpdate", updates |-> 0]

\* the handlers the last fetch event started: one strategy of the kind
\* rule.strategy for its request, and rule.updates Update Checker runs
Started(rule) ==
    /\ \E t \in DOMAIN tasks : tasks[t].kind = rule.strategy /\ tasks[t].req = lastEvent.req
    /\ Cardinality({t \in DOMAIN tasks : tasks[t].kind = "update"}) = rule.updates

\* C10 (as claimed): every intercepted request is dispatched by the rule:
\* manifest location to Network-First without update check, navigation or HTML
\* preference to Network-First with one update check, all else to
\* Cache-First-then-Refresh without update check.
C10_DispatchRule == lastEvent.intercepted => Started(RuleFor(lastEvent.req))

\* C10 (amended): every intercepted request whose URL does not end in
\* "/favicon.ico" is dispatched by the rule; one whose URL does goes to the
\* favicon handler and starts no update check.
C10_DispatchRuleButFavicon ==
    lastEvent.intercepted =>
        IF IsFaviconUrl(lastEvent.req)
        THEN Started([strategy |-> "handleFaviconRequest", updates |-> 0])
        ELSE Started(RuleFor(lastEvent.req))

\* a navigation to the manifest location with an HTML preference was dispatched
C10_Witness ==
    /\ lastEvent.intercepted
    /\ lastEvent.req.url = REMOTE_ASSET_LIST
    /\ lastEvent.req.hash
    /\ lastEvent.req.mode = "navigate"
    /\ "text/html" \in Range(lastEvent.req.accept)
    /\ \E t \in DOMAIN tasks : tasks[t].kind = "networkFirst"

\* the lookups of networkFirst after a failed fetch, in the order of the code
FallbackChain(req) ==
    <<req.url, <<"cadoku", "">>, <<"cadoku", "index.html">>, <<"cadoku", "404.html">> >>

\* C11: after a failed network fetch, networkFirst returns the first that is
\* stored of: the exact match, the root document, index.html, 404.html; it
\* returns the synthesized 503 document only when none of the four is stored.
C11_FallbackOrder ==
    \A t \in DOMAIN tasks :
        (tasks[t].kind = "networkFirst" /\ tasks[t].pc = "done" /\ tasks[t].net = NoResp) =>
            LET looked == tasks[t].looked
                n == Len(looked)
            IN  /\ n \in 1..4
                /\ \A i \in 1..n : looked[i].url = FallbackChain(tasks[t].req)[i]
                /\ \A i \in 1..(n - 1) : looked[i].found = {}
                /\ IF looked[n].found # {}
                   THEN tasks[t].resp \in looked[n].found
                   ELSE n = 4 /\ tasks[t].resp = [status |-> 503, body |-> "html"]

\* an offline navigation was answered with the stored 404.html, index.html
\* not being stored
C11_Witness ==
    \E t \in DOMAIN tasks :
        /\ tasks[t].kind = "networkFirst"
        /\ tasks[t].pc = "done"
        /\ tasks[t].net = NoResp
        /\ tasks[t].resp.body = "404"
        /\ StoredAt(<<"cadoku", "index.html">>) = {}

\* C12: when cacheFirstThenUpdate finds no stored entry and its fetch is
\* rejected, it returns an empty 204 for a request of destination image (or a
\* favicon URL) and an empty 503 for any other request; it always returns a
\* response.
C12_UncachedUnreachable ==
    \A t \in DOMAIN tasks :
        (/\ tasks[t].kind = "cacheFirstThenUpdate"
         /\ tasks[t].pc = "done"
         /\ tasks[t].seen = {}
         /\ tasks[t].net = NoResp) =>
            /\ tasks[t].responded
            /\ tasks[t].resp =
                   IF tasks[t].req.destination = "image" \/ IsFaviconUrl(tasks[t].req)
                   THEN [status |-> 204, body |-> "null"]
                   ELSE [status |-> 503, body |-> "empty"]

\* an uncached image was unreachable and answered with the empty 204
C12_Witness ==
    \E t \in DOMAIN tasks :
        /\ tasks[t].kind = "cacheFirstThenUpdate"
        /\ tasks[t].pc = "done"
        /\ tasks[t].req = ImageReq
        /\ tasks[t].seen = {}
        /\ tasks[t].net = NoResp
        /\ tasks[t].resp.status = 204

\* C13: the step in which an Update Checker run fails to fetch or parse the
\* manifest ends the run as failed and changes neither the store nor any
\* client's messages; the run has created, deleted and written nothing.
C13_FailedRunChangesNothing ==
    [][\A t \in DOMAIN tasks :
          (tasks[t].pc = "U_list" /\ tasks'[t].pc = "done") =>
              /\ tasks'[t].result = "threw"
              /\ tasks'[t].manifest = NoManifest
              /\ cacheNames' = cacheNames
              /\ cacheData' = cacheData
              /\ inbox' = inbox
              /\ tasks'[t].created = {} /\ tasks'[t].deleted = {}
              /\ tasks'[t].stored = {} /\ tasks'[t].notified = {}]_vars

\* a run has failed on its manifest while the store held a version
C13_Witness ==
    \E t \in DOMAIN tasks :
        /\ tasks[t].kind = "update"
        /\ tasks[t].result = "threw"
        /\ FundName(V1) \in Range(cacheNames)

\* C14: the step in which the install handler fails to fetch or parse the
\* manifest completes the install and changes nothing in the store; the step
\* in which the Update Checker called by the activate handler fails on the
\* manifest completes the activation, with the garbage collection done and the
\* clients claimed.
C14_ManifestFailureIsNotFatal ==
    [][\A t \in DOMAIN tasks :
          /\ (tasks[t].pc = "I_list" /\ tasks'[t].pc = "done") =>
                 /\ tasks'[t].result = "installed"
                 /\ phase' = "installed"
                 /\ cacheNames' = cacheNames /\ cacheNames = tasks[t].startKeys
                 /\ cacheData' = cacheData
                 /\ tasks'[t].created = {} /\ tasks'[t].stored = {}
          /\ (tasks[t].kind = "activate" /\ tasks[t].pc = "U_list" /\ tasks'[t].pc = "done") =>
                 /\ tasks'[t].result = "threw"
                 /\ phase' = "activated"
                 /\ claimed'
                 /\ tasks[t].toDelete = {}
                 /\ tasks[t].current # Null => StaleKeys(tasks[t].gcKeys, tasks[t].current) = {}
                 /\ cacheNames' = tasks[t].gcKeys]_vars

\* a worker whose install could not read the manifest has kept a stored
\* version and has been installed
C14_Witness ==
    \E t \in DOMAIN tasks :
        /\ tasks[t].kind = "install"
        /\ tasks[t].pc = "done"
        /\ tasks[t].manifest = NoManifest
        /\ tasks[t].startKeys # <<>>
        /\ phase = "installed"

\* the pre-cache batch of task t is over and its handler has completed
BatchCompleted(t) ==
    \/ tasks[t].kind = "install" /\ tasks[t].pc = "done" /\ tasks[t].manifest # NoManifest
    \/ tasks[t].result = "updated"

\* when the handler of a batch has completed, every fetch of the batch has
\* settled and every resource fetched with success is in the new fundamentals
\* namespace
BatchIsolated(t) ==
    LET F == FundName(tasks[t].data.version)
    IN  /\ tasks[t].pending = {}
        /\ tasks[t].stored \cup tasks[t].missed = Range(tasks[t].batch)
        /\ F \in Range(cacheNames)
        /\ tasks[t].stored \subseteq CachedUrls(F)

C16_ResponseIsMirrored ==
    \A t \in DOMAIN tasks :
        (/\ tasks[t].kind = "networkFirst"
         /\ tasks[t].pc = "done"
         /\ tasks[t].net # NoResp
         /\ tasks[t].current # Null) =>
            /\ tasks[t].resp = tasks[t].net
            /\ PagesName(tasks[t].current) \in tasks[t].wrote

\* C16 (amended): networkFirst returns the response its fetch yielded, whatever
\* becomes of the copy; it puts the copy nowhere but into the pages namespace
\* of the version the Version Resolver returned, and when that put resolves on
\* a namespace still in the store, the response is stored there under the
\* request's key; when the put or the open before it is rejected, the store is
\* left as it was.
C16_MirrorIsBestEffort ==
    [][\A t \in DOMAIN tasks :
          (/\ tasks[t].kind = "networkFirst"
           /\ tasks[t].pc \in {"N_resolve", "N_open", "N_put"}
           /\ tasks'[t].pc = "done") =>
              /\ tasks'[t].resp = tasks[t].net
              /\ tasks'[t].responded
              /\ IF tasks'[t].wrote # {}
                 THEN /\ tasks[t].pc = "N_put"
                      /\ tasks[t].current # Null
                      /\ tasks'[t].wrote = {PagesName(tasks[t].current)}
                      /\ \/ tasks[t].orphan
                         \/ [url |-> tasks[t].req.url, resp |-> tasks[t].net]
                                \in cacheData'[PagesName(tasks[t].current)]
                 ELSE cacheData' = cacheData]_vars

\* a navigation was answered from the network with a 404 response, and the
\* pages namespace of the installed version holds that response
C16_Witness ==
    \E t \in DOMAIN tasks :
        /\ tasks[t].kind = "networkFirst"
        /\ tasks[t].pc = "done"
        /\ tasks[t].net.status = 404
        /\ tasks[t].resp = tasks[t].net
        /\ tasks[t].current = V1
        /\ PagesName(V1) \in Range(cacheNames)
        /\ [url |-> tasks[t].req.url, resp |-> tasks[t].net] \in cacheData[PagesName(V1)]

\* C17: an Update Checker run that finds the Version Resolver's result equal
\* to the remote version ends at once with updated:false; it has fetched no
\* asset, it has created, deleted and written nothing, it has notified no
\* client, and its last step leaves the store and the clients' messages as
\* they were.
C17_EqualVersionsNoOp ==
    [][\A t \in DOMAIN tasks :
          (tasks[t].pc = "U_resolve" /\ tasks'[t].pc # "U_resolve") =>
              IF getHighestCachedVersion(cacheNames) = tasks[t].data.version
              THEN /\ tasks'[t].pc = "done"
                   /\ tasks'[t].result = "noop"
                   /\ cacheNames' = cacheNames
                   /\ cacheData' = cacheData
                   /\ inbox' = inbox
                   /\ tasks'[t].stored = {} /\ tasks'[t].missed = {}
                   /\ tasks'[t].pending = {}
                   /\ tasks'[t].created = {} /\ tasks'[t].deleted = {}
                   /\ tasks'[t].notified = {}
              ELSE tasks'[t].pc = "U_open"]_vars

\* a run has ended with updated:false on a store that holds the remote version
C17_Witness ==
    \E t \in DOMAIN tasks :
        /\ tasks[t].kind = "update"
        /\ tasks[t].result = "noop"
        /\ tasks[t].current = remote.version
        /\ FundName(remote.version) \in Range(cacheNames)

\* what a step leaves of the worker's state when it changes none of it
Untouched ==
    /\ cacheNames' = cacheNames
    /\ cacheData' = cacheData
    /\ inbox' = inbox
    /\ phase' = phase
    /\ claimed' = claimed
    /\ remote' = remote

\* C18: a SKIP_WAITING message makes the worker call skipWaiting and starts no
\* handler; a CHECK_FOR_UPDATE message starts one Update Checker run and
\* nothing else, and the failure of a run started so leaves the worker as it
\* is; a message of another type or without a type changes nothing.
C18_MessageEffects ==
    [][/\ (nev' = nev + 1 /\ lastEvent'.msg = "SKIP_WAITING") =>
              skipWaiting' /\ tasks' = tasks /\ Untouched
       /\ (nev' = nev + 1 /\ lastEvent'.msg = "CHECK_FOR_UPDATE") =>
              /\ skipWaiting' = skipWaiting
              /\ Untouched
              /\ \E t \in DOMAIN tasks :
                    /\ tasks'[t].kind = "update" /\ tasks'[t].pc = "U_list"
                    /\ \A u \in DOMAIN tasks \ {t} : tasks'[u] = tasks[u]
       /\ (nev' = nev + 1 /\ lastEvent'.msg \in {"OTHER", "none"}) =>
              skipWaiting' = skipWaiting /\ tasks' = tasks /\ Untouched
       /\ \A t \in DOMAIN tasks :
              (tasks[t].kind = "update" /\ tasks[t].pc # "done" /\ tasks'[t].result = "threw") =>
                  skipWaiting' = skipWaiting /\ Untouched]_vars

\* the worker was told to skip waiting and then to check for an update, and
\* the Update Checker run has failed
C18_Witness ==
    /\ skipWaiting
    /\ lastEvent.msg = "CHECK_FOR_UPDATE"
    /\ \E t \in DOMAIN tasks : tasks[t].kind = "update" /\ tasks[t].result = "threw"

\* C19: the favicon handler changes nothing in the store, and it returns the
\* network's response when that is ok, else the stored entry when there is
\* one, else an empty 204: never an error.
C19_FaviconNeverFails ==
    [][\A t \in DOMAIN tasks :
          (/\ tasks[t].kind = "handleFaviconRequest"
           /\ tasks[t].pc # "done"
           /\ tasks'[t] # tasks[t]) =>
              /\ cacheNames' = cacheNames
              /\ cacheData' = cacheData
              /\ tasks'[t].wrote = {} /\ tasks'[t].created = {}
              /\ tasks'[t].pc = "done" =>
                    /\ tasks'[t].responded
                    /\ IsOk(tasks'[t].resp)
                    /\ tasks'[t].resp =
                           IF IsOk(tasks'[t].net) THEN tasks'[t].net
                           ELSE IF StoredFor(tasks[t].req) # {}
                           THEN CHOOSE x \in StoredFor(tasks[t].req) : TRUE
                           ELSE [status |-> 204, body |-> "null"]]_vars

\* the network answered the icon's request with a 404, and the handler
\* returned the stored icon
C19_Witness ==
    \E t \in DOMAIN tasks :
        /\ tasks[t].kind = "handleFaviconRequest"
        /\ tasks[t].pc = "done"
        /\ tasks[t].net.status = 404
        /\ tasks[t].seen # {}
        /\ tasks[t].resp \in tasks[t].seen

\* the refresh of the Cache-First-then-Refresh task t fetched an ok response,
\* wrote it, and the entry it wrote is still the one stored in pages
Refreshed(t) ==
    /\ tasks[t].kind = "cacheFirstThenUpdate"
    /\ tasks[t].pc = "done"
    /\ IsOk(tasks[t].net)
    /\ tasks[t].wrote # {}
    /\ \E n \in Range(cacheNames) :
           /\ n \in tasks[t].wrote
           /\ [url |-> tasks[t].req.url, resp |-> tasks[t].net] \in cacheData[n]

\* C20: once the refresh for a request has written an ok response, the next
\* Cache-First-then-Refresh lookup of the same request returns that response,
\* also when the fundamentals namespace holds an entry for the request.
C20_NextLookupIsRefreshed ==
    [][\A t, u \in DOMAIN tasks :
          (/\ Refreshed(t)
           /\ tasks[u].kind = "cacheFirstThenUpdate"
           /\ tasks[u].pc = "C_match"
           /\ tasks[u].req = tasks[t].req
           /\ tasks'[u].pc # "C_match") =>
              tasks'[u].resp = tasks[t].net]_vars

\* C21: while its network fetch is pending (and so also when it never settles),
\* a Cache-First-then-Refresh task that found a stored entry has already
\* produced that entry as its response, and a Network-First task has produced
\* no response.
C21_CachedResponseDoesNotWait ==
    \A t \in DOMAIN tasks :
        /\ (/\ tasks[t].kind = "cacheFirstThenUpdate"
            /\ tasks[t].pc = "B_fetch"
            /\ tasks[t].seen # {}) =>
               /\ tasks[t].responded
               /\ tasks[t].resp \in tasks[t].seen
        /\ (/\ tasks[t].kind = "networkFirst"
            /\ tasks[t].pc = "N_fetch") =>
               /\ ~tasks[t].responded
               /\ tasks[t].resp = NoResp

\* both fetches are pending: the cache-first task has answered from the store,
\* the network-first task has not answered
C21_Witness ==
    \E t, u \in DOMAIN tasks :
        /\ tasks[t].kind = "cacheFirstThenUpdate"
        /\ tasks[t].pc = "B_fetch"
        /\ tasks[t].seen # {}
        /\ tasks[t].responded
        /\ tasks[u].kind = "networkFirst"
        /\ tasks[u].pc = "N_fetch"
        /\ ~tasks[u].responded

\* C22 (as claimed): when an updating run of the Update Checker has posted
\* NEW_VERSION_AVAILABLE, every asset fetch of the run had settled, the pages
\* namespace of the new version existed, and no namespace of another version
\* was left in the store.
C22_NotifiedAfterCompletion ==
    \A t \in DOMAIN tasks :
        tasks[t].notified # {} =>
            /\ tasks[t].pending = {}
            /\ Range(tasks[t].batch) = tasks[t].stored \cup tasks[t].missed
            /\ PagesName(tasks[t].data.version) \in Range(tasks[t].endKeys)
            /\ \A n \in Range(tasks[t].endKeys) : BelongsTo(n, tasks[t].data.version)

\* the step in which the mirror write of task t fails: the open is rejected, or
\* the put ends without having written
MirrorFails(t) ==
    /\ tasks'[t].pc = "done"
    /\ \/ tasks[t].pc \in {"N_open", "B_open"}
       \/ tasks[t].pc \in {"N_put", "B_put"} /\ tasks'[t].wrote = tasks[t].wrote

\* C23: when the open or the put of the mirror write fails, in networkFirst or
\* in the refresh of cacheFirstThenUpdate, the failure is swallowed: the store is
\* left as it was and the fetched response is what comes back (a
\* cacheFirstThenUpdate that has already answered from the store keeps that
\* answer); no error response is produced.
C23_MirrorFailureIsSwallowed ==
    [][\A t \in DOMAIN tasks :
          MirrorFails(t) =>
              /\ cacheNames' = cacheNames
              /\ cacheData' = cacheData
              /\ tasks'[t].net = tasks[t].net
              /\ tasks'[t].responded
              /\ tasks'[t].resp = IF tasks[t].responded THEN tasks[t].resp ELSE tasks[t].net
              /\ tasks'[t].resp # NoResp]_vars

\* a networkFirst and an unanswered cacheFirstThenUpdate whose mirror write
\* failed on an https request returned the response of their fetch
C23_Witness ==
    \E t \in DOMAIN tasks :
        /\ tasks[t].kind \in {"networkFirst", "cacheFirstThenUpdate"}
        /\ tasks[t].pc = "done"
        /\ tasks[t].req.scheme = "https"
        /\ IsOk(tasks[t].net)
        /\ tasks[t].current # Null
        /\ tasks[t].wrote = {}
        /\ tasks[t].seen = {}
        /\ tasks[t].resp = tasks[t].net

\* C24 (as claimed): the list fetchRemoteAssetList returns is the manifest's
\* list, normalized, in the manifest's order and without duplicates, so the
\* Update Checker iterates over no URL twice; the version it returns is the
\* manifest's version.
C24_AssetListDeduplicated ==
    \A t \in DOMAIN tasks :
        tasks[t].data # NoData =>
            LET m == tasks[t].manifest
                absolute == [i \in 1..Len(m.assets) |-> normalizeAssetUrl(m.assets[i])]
            IN  /\ tasks[t].data.version = m.version
                /\ tasks[t].data.assets = dedupeArray(absolute)
                /\ tasks[t].kind # "install" =>
                       Cardinality(Range(tasks[t].batch)) = Len(tasks[t].batch)

\* the request strategies
Strategies == {"networkFirst", "cacheFirstThenUpdate", "handleFaviconRequest"}

\* the handlers that run the pre-caching: install, and the Update Checker from
\* a message, a navigation or the activate handler
Precachers == {"install", "update", "activate"}

\* task t takes a step of its own
Steps(t) == tasks[t].pc \notin {"idle", "done"} /\ tasks'[t].pc # tasks[t].pc

\* the fundamentals namespaces of the store are the same, with the same entries
FundamentalsUnchanged ==
    /\ \A n \in Range(cacheNames) \cup Range(cacheNames') :
           MatchFundamentals(n) # Null =>
               /\ n \in Range(cacheNames)
               /\ n \in Range(cacheNames')
               /\ cacheData'[n] = cacheData[n]

\* C25: a step of a request strategy deletes no namespace and leaves every
\* fundamentals namespace as it was; the only namespace it creates or writes
\* to is the pages namespace of the version the Version Resolver returned to
\* it.  A step that changes a fundamentals namespace is a step of the install
\* handler or of the Update Checker.
C25_StrategiesLeaveFundamentals ==
    [][/\ \A t \in DOMAIN tasks :
              (tasks[t].kind \in Strategies /\ Steps(t)) =>
                  /\ FundamentalsUnchanged
                  /\ Range(cacheNames) \subseteq Range(cacheNames')
                  /\ \A n \in Range(cacheNames') :
                         (n \notin Range(cacheNames) \/ cacheData'[n] # cacheData[n]) =>
                             /\ tasks[t].current # Null
                             /\ n = PagesName(tasks[t].current)
                             /\ MatchFundamentals(n) = Null
       /\ ~FundamentalsUnchanged =>
              \E t \in DOMAIN tasks :
                  /\ tasks[t].kind \in Precachers
                  /\ tasks[t].pc \notin {"idle", "done"}
                  /\ tasks'[t] # tasks[t]]_vars

\* a strategy has mirrored a response into the pages namespace of version "1"
\* and the fundamentals namespace of that version is still in the store
C25_Witness ==
    \E t \in DOMAIN tasks :
        /\ tasks[t].kind \in Strategies
        /\ tasks[t].pc = "done"
        /\ tasks[t].wrote = {PagesName(V1)}
        /\ FundName(V1) \in Range(cacheNames)
        /\ PagesName(V1) \in Range(cacheNames)
        /\ [url |-> tasks[t].req.url, resp |-> tasks[t].net] \in cacheData[PagesName(V1)]
        /\ [url |-> tasks[t].req.url, resp |-> tasks[t].net] \notin cacheData[FundName(V1)]

\* C26 (as claimed): once an Update Checker run to the version V has completed
\* and left only namespaces of V, and while the remote version is V and the
\* only other handlers are request strategies, every namespace in the store
\* belongs to V, whatever the strategies in flight do afterwards.
C26_NoOtherVersionAfterUpdate ==
    \A t \in DOMAIN tasks :
        (/\ tasks[t].result = "updated"
         /\ \A n \in Range(tasks[t].endKeys) : BelongsTo(n, tasks[t].data.version)
         /\ remote.version = tasks[t].data.version
         /\ \A u \in DOMAIN tasks \ {t} : tasks[u].kind \in Strategies) =>
            \A n \in Range(cacheNames) : BelongsTo(n, tasks[t].data.version)

\* C27 (as claimed): when a worker has installed and then activated while the
\* manifest stayed at the version V and no fetch failed, at the end of the
\* activate handler the Version Resolver returns V and every namespace in the
\* store belongs to V, whatever versions were cached before.
C27_InstallActivateConverges ==
    \A t \in DOMAIN tasks :
        (/\ tasks[t].kind = "activate"
         /\ tasks[t].pc = "done"
         /\ nfail = 0
         /\ Len(deployed) = 1) =>
            /\ getHighestCachedVersion(cacheNames) = remote.version
            /\ \A n \in Range(cacheNames) : BelongsTo(n, remote.version)

\* C28 (as claimed): a networkFirst whose fetch yielded a non-ok response has
\* made no fallback lookup, returns that response, and has mirrored it into a
\* pages namespace.
C28_NonOkIsMirrored ==
    \A t \in DOMAIN tasks :
        (/\ tasks[t].kind = "networkFirst"
         /\ tasks[t].pc = "done"
         /\ tasks[t].net # NoResp
         /\ ~IsOk(tasks[t].net)) =>
            /\ tasks[t].looked = <<>>
            /\ tasks[t].resp = tasks[t].net
            /\ tasks[t].wrote # {}

\* C28 (amended): networkFirst makes its fallback lookups only when its fetch
\* threw; a response of any status, ok or not, is returned unchanged and goes
\* on to the mirror write whenever the Version Resolver returns a version; and
\* a put that resolves on a namespace still in the store replaces the entry
\* stored there under the request's key.  Nothing is mirrored when the Version
\* Resolver returns no version or when the open or the put is rejected.
C28_NonOkIsTreatedAsOk ==
    [][\A t \in DOMAIN tasks :
          (tasks[t].kind = "networkFirst" /\ Steps(t)) =>
              /\ tasks'[t].looked # <<>> => tasks'[t].net = NoResp
              /\ tasks[t].pc = "N_fetch" => (tasks'[t].pc = "N_match" <=> tasks'[t].net = NoResp)
              /\ (tasks'[t].pc = "done" /\ tasks'[t].net # NoResp) => tasks'[t].resp = tasks'[t].net
              /\ tasks[t].pc = "N_resolve" =>
                    IF getHighestCachedVersion(cacheNames) # Null
                    THEN tasks'[t].pc = "N_open"
                    ELSE tasks'[t].pc = "done" /\ tasks'[t].wrote = {}
              /\ (tasks[t].pc = "N_put" /\ tasks'[t].wrote # tasks[t].wrote /\ ~tasks[t].orphan) =>
                    LET n == PagesName(tasks[t].current)
                    IN  /\ n \in Range(cacheNames)
                        /\ cacheData'[n] = {e \in cacheData[n] : e.url # tasks[t].req.url}
                                             \cup {[url |-> tasks[t].req.url, resp |-> tasks[t].net]}]_vars

\* two networkFirst runs for one request: the first mirrored an ok response,
\* the second a 404 response, which has replaced the first in the pages
\* namespace
C28_Witness ==
    \E t, u \in DOMAIN tasks :
        /\ tasks[t].kind = "networkFirst" /\ tasks[u].kind = "networkFirst"
        /\ tasks[t].pc = "done" /\ tasks[u].pc = "done"
        /\ tasks[t].req = tasks[u].req
        /\ IsOk(tasks[t].net)
        /\ tasks[u].net.status = 404
        /\ tasks[u].resp = tasks[u].net
        /\ tasks[u].looked = <<>>
        /\ tasks[u].wrote = {PagesName(V1)}
        /\ PagesName(V1) \in Range(cacheNames)
        /\ {e \in cacheData[PagesName(V1)] : e.url = tasks[u].req.url}
               = {[url |-> tasks[u].req.url, resp |-> tasks[u].net]}

\* the names in the store after the step that were not in it before
Created == Range(cacheNames') \ Range(cacheNames)

\* C29: a request strategy to which the Version Resolver returns no version
\* (no fundamentals namespace exists) ends there, leaving the store as it was;
\* a strategy step changes the store only after the Version Resolver returned
\* a version to it; and whenever a pages namespace is created, it is the pages
\* namespace of the version the Version Resolver returned to the strategy that
\* creates it, or of the version the Update Checker that creates it is
\* installing.
C29_NoVersionNoMirror ==
    [][/\ \A t \in DOMAIN tasks :
              (tasks[t].kind \in Strategies /\ Steps(t)) =>
                  /\ (/\ tasks[t].pc \in {"N_resolve", "B_resolve"}
                      /\ getHighestCachedVersion(cacheNames) = Null) =>
                         /\ tasks'[t].pc = "done"
                         /\ tasks'[t].current = Null
                         /\ tasks'[t].created = {} /\ tasks'[t].wrote = {}
                  /\ (\/ cacheNames' # cacheNames
                      \/ cacheData' # cacheData
                      \/ tasks'[t].created # tasks[t].created
                      \/ tasks'[t].wrote # tasks[t].wrote) =>
                         tasks[t].current # Null
       /\ \A n \in Created :
              MatchFundamentals(n) = Null =>
                  \E t \in DOMAIN tasks :
                      /\ tasks'[t] # tasks[t]
                      /\ \/ /\ tasks[t].kind \in Strategies
                            /\ tasks[t].current # Null
                            /\ n = PagesName(tasks[t].current)
                         \/ /\ tasks[t].kind \in {"update", "activate"}
                            /\ tasks[t].data # NoData
                            /\ n = PagesName(tasks[t].data.version)]_vars

\* with an empty store, a strategy has fetched an ok response over https and
\* has ended without creating or writing anything
C29_Witness ==
    \E t \in DOMAIN tasks :
        /\ tasks[t].kind \in Strategies
        /\ tasks[t].pc = "done"
        /\ tasks[t].req.scheme = "https"
        /\ IsOk(tasks[t].net)
        /\ tasks[t].resp = tasks[t].net
        /\ tasks[t].current = Null
        /\ tasks[t].created = {} /\ tasks[t].wrote = {}
        /\ cacheNames = <<>>

====
